---- MODULE Spec2Model ----
(***************************************************************************)
(* Model of videos.py: solve(dataset_path) reads a "Streaming Videos"      *)
(* instance, builds a binary program (y[c,v], x[r,c], Capacity, Link,      *)
(* OneCache, a MAXIMIZE objective), hands it to the solver and writes      *)
(* videos.out.  The solver is a black box: it returns any 0/1 assignment   *)
(* satisfying the constraints that were added, or no solution.             *)
(*                                                                         *)
(* Python values: a list is a sequence, a dict is a sequence of            *)
(* <<key, value>> pairs in insertion order with distinct keys, the result  *)
(* of read_ints() is a record [none, ints] (None, or a list of integers).  *)
(* A line of the input is a record [ws, toks]: ws whitespace characters    *)
(* around the integer tokens toks; a blank line has toks = <<>>.           *)
(***************************************************************************)
EXTENDS Integers, Sequences, FiniteSets, TLC

VARIABLES file, pos, pc, err,
          header, video_sizes, endpoints, ep, requests,
          yvars, capacity, r_idx, xvars, links, onecache, obj_expr,
          SolCount, Status, yX, xX, out_opened, out, log

vars == <<file, pos, pc, err, header, video_sizes, endpoints, ep, requests,
          yvars, capacity, r_idx, xvars, links, onecache, obj_expr,
          SolCount, Status, yX, xX, out_opened, out, log>>

parsed == <<header, video_sizes, endpoints, ep, requests>>
model == <<yvars, capacity, r_idx, xvars, links, onecache, obj_expr>>
solution == <<SolCount, Status, yX, xX>>
output == <<out_opened, out, log>>

(***************************************************************************)
(* Bounds of the input families.                                           *)
(***************************************************************************)
MaxR == 2
MaxK == 2
MaxBlank == 2

VVals == {1, 2}
CVals == {2}
SizeVals == {1, 2}
XVals == {2}
LdVals == {3}
LatVals == {1, 2, 3}
NVals == {1, 2}

(***************************************************************************)
(* Python helpers.                                                         *)
(***************************************************************************)
None == [none |-> TRUE, ints |-> <<>>]
Some(s) == [none |-> FALSE, ints |-> s]

\* range(n)
Range(n) == 0 .. (n - 1)

\* list[i], with Python's negative indices; InRange is the IndexError test.
InRange(s, i) == (i >= 0 /\ i < Len(s)) \/ (i < 0 /\ -i <= Len(s))
PyIndex(s, i) == IF i >= 0 THEN s[i + 1] ELSE s[Len(s) + i + 1]

\* dict: d[k] = v keeps the position of an existing key, else appends.
DictHas(d, k) == \E j \in 1..Len(d) : d[j][1] = k
DictSet(d, k, v) ==
  IF DictHas(d, k)
  THEN [j \in 1..Len(d) |-> IF d[j][1] = k THEN <<k, v>> ELSE d[j]]
  ELSE Append(d, <<k, v>>)

(***************************************************************************)
(* read_ints(): skip blank lines, None at end of file, else the integers   *)
(* of the line.  Returns the value read and the new file position.         *)
(***************************************************************************)
RECURSIVE read_ints_nostrip(_, _)
\* (variant: only empty lines are skipped, not whitespace-only ones)
read_ints_nostrip(f, p) ==
  IF p > Len(f) THEN [val |-> None, pos |-> p]
  ELSE IF f[p].toks = <<>> /\ f[p].ws = 0 THEN read_ints_nostrip(f, p + 1)
  ELSE [val |-> Some(f[p].toks), pos |-> p + 1]

RECURSIVE read_ints(_, _)
read_ints(f, p) ==
  IF p > Len(f) THEN [val |-> None, pos |-> p]
  ELSE IF f[p].toks = <<>> THEN read_ints(f, p + 1)
  ELSE [val |-> Some(f[p].toks), pos |-> p + 1]

\* Unpacking a read_ints() result into n names: the exception raised, or "none".
Unpack(val, n) ==
  IF val.none THEN "TypeError"
  ELSE IF Len(val.ints) # n THEN "ValueError"
  ELSE "none"

V == header[1]
E == header[2]
R == header[3]
C == header[4]
X == header[5]

\* Where the parser goes once nEp endpoints are read.
AfterEndpoints(hdr, nEp) ==
  IF nEp < hdr[2] THEN "ephdr"
  ELSE IF hdr[3] > 0 THEN "req"
  ELSE "build"

Raise(e) == /\ pc' = "error"
            /\ err' = e

NoEp == [L_d |-> 0, K |-> 0, caches |-> <<>>]

(***************************************************************************)
(* The parser, one action per read_ints() call.                            *)
(***************************************************************************)
ReadHeader ==
  /\ pc = "header"
  /\ LET r == read_ints(file, pos) IN
     /\ pos' = r.pos
     /\ IF Unpack(r.val, 5) # "none"
        THEN /\ Raise(Unpack(r.val, 5))
             /\ UNCHANGED header
        ELSE /\ header' = r.val.ints
             /\ pc' = "sizes"
             /\ err' = err
  /\ UNCHANGED <<file, video_sizes, endpoints, ep, requests, model, solution, output>>

ReadVideoSizes ==
  /\ pc = "sizes"
  /\ LET r == read_ints(file, pos) IN
     /\ pos' = r.pos
     /\ video_sizes' = r.val
     /\ pc' = AfterEndpoints(header, 0)
  /\ UNCHANGED <<file, err, header, endpoints, ep, requests, model, solution, output>>

ReadEndpointHeader ==
  /\ pc = "ephdr"
  /\ LET r == read_ints(file, pos) IN
     /\ pos' = r.pos
     /\ IF Unpack(r.val, 2) # "none"
        THEN /\ Raise(Unpack(r.val, 2))
             /\ UNCHANGED <<ep, endpoints>>
        ELSE LET L_d == r.val.ints[1]
                 K == r.val.ints[2]
             IN  /\ err' = err
                 /\ IF K > 0
                    THEN /\ ep' = [L_d |-> L_d, K |-> K, caches |-> <<>>]
                         /\ pc' = "cache"
                         /\ UNCHANGED endpoints
                    ELSE /\ endpoints' = Append(endpoints, [L_d |-> L_d, caches |-> <<>>])
                         /\ ep' = NoEp
                         /\ pc' = AfterEndpoints(header, Len(endpoints) + 1)
  /\ UNCHANGED <<file, header, video_sizes, requests, model, solution, output>>

ReadCacheLine ==
  /\ pc = "cache"
  /\ LET r == read_ints(file, pos) IN
     /\ pos' = r.pos
     /\ IF Unpack(r.val, 2) # "none"
        THEN /\ Raise(Unpack(r.val, 2))
             /\ UNCHANGED <<ep, endpoints>>
        ELSE LET caches == DictSet(ep.caches, r.val.ints[1], r.val.ints[2])
             IN  /\ err' = err
                 /\ IF ep.K > 1
                    THEN /\ ep' = [ep EXCEPT !.K = ep.K - 1, !.caches = caches]
                         /\ pc' = "cache"
                         /\ UNCHANGED endpoints
                    ELSE /\ endpoints' = Append(endpoints, [L_d |-> ep.L_d, caches |-> caches])
                         /\ ep' = NoEp
                         /\ pc' = AfterEndpoints(header, Len(endpoints) + 1)
  /\ UNCHANGED <<file, header, video_sizes, requests, model, solution, output>>

ReadRequest ==
  /\ pc = "req"
  /\ LET r == read_ints(file, pos) IN
     /\ pos' = r.pos
     /\ requests' = Append(requests, r.val)
     /\ pc' = IF Len(requests) + 1 < R THEN "req" ELSE "build"
  /\ UNCHANGED <<file, err, header, video_sizes, endpoints, ep, model, solution, output>>

(***************************************************************************)
(* The model builder.  yvars is the key set of y = addVars(C, V); an x     *)
(* variable x_{r}_{c} is the pair <<r, c>>; capacity[c] is the constraint  *)
(* Capacity[c]; links holds the Link constraints x <= y; onecache the      *)
(* OneCache constraints sum(xs) <= 1; obj_expr the terms saving * x.       *)
(***************************************************************************)
NoVars == [xs |-> <<>>, added |-> {}, lk |-> {}, terms |-> <<>>, err |-> "none"]

\* (variant: a cache as slow as the data center is taken too)
IsCandidate_le(L_c, L_d) == L_c <= L_d

\* if L_c < L_d: the cache is faster than the data center.
IsCandidate(L_c, L_d) == L_c < L_d

\* (variant: the number of requests is left out)
Saving_noN(L_d, L_c, n) == L_d - L_c

\* saving = (L_d - L_c) * n
Saving(L_d, L_c, n) == (L_d - L_c) * n

\* (variant: linked to the first video instead of the requested one)
LinkConstr_first(x_rc, c_id, v) == [x |-> x_rc, y |-> <<c_id, 0>>]

\* m.addConstr(x_rc <= y[c_id, v])
LinkConstr(x_rc, c_id, v) == [x |-> x_rc, y |-> <<c_id, v>>]

\* (variant: the OneCache constraint is never added)
OneCacheConstr_none(r, r_x_vars) == {}

\* if r_x_vars: m.addConstr(quicksum(r_x_vars) <= 1)
OneCacheConstr(r, r_x_vars) ==
  IF r_x_vars # <<>> THEN {[r |-> r, xs |-> r_x_vars]} ELSE {}

\* (variant: the capacity counts videos instead of their sizes)
CapacityConstr_unit(sizes, nV, cap) ==
  [coef |-> [v \in Range(nV) |-> 1], rhs |-> cap]

\* quicksum(video_sizes[v] * y[c, v] for v in range(V)) <= X
CapacityConstr(sizes, nV, cap) ==
  [coef |-> [v \in Range(nV) |-> sizes[v + 1]], rhs |-> cap]

\* The loop over connected_caches.items() of request r = (v, e, n).
RECURSIVE RequestVars(_, _, _, _, _, _, _, _)
RequestVars(items, j, r, v, n, L_d, ykeys, acc) ==
  IF j > Len(items) \/ acc.err # "none" THEN acc
  ELSE LET c_id == items[j][1]
           L_c == items[j][2]
           x_rc == <<r, c_id>>
       IN  IF IsCandidate(L_c, L_d)
           THEN IF <<c_id, v>> \in ykeys
                THEN RequestVars(items, j + 1, r, v, n, L_d, ykeys,
                       [xs |-> Append(acc.xs, x_rc),
                        added |-> acc.added \cup {x_rc},
                        lk |-> acc.lk \cup {LinkConstr(x_rc, c_id, v)},
                        terms |-> Append(acc.terms,
                                         [coef |-> Saving(L_d, L_c, n), x |-> x_rc]),
                        err |-> "none"])
                ELSE [acc EXCEPT !.added = acc.added \cup {x_rc}, !.err = "KeyError"]
           ELSE RequestVars(items, j + 1, r, v, n, L_d, ykeys, acc)

BuildModel ==
  /\ pc = "build"
  /\ yvars' = Range(C) \X Range(V)
  /\ r_idx' = 0
  /\ IF C > 0 /\ V > 0 /\ video_sizes.none
     THEN /\ Raise("TypeError")
          /\ UNCHANGED capacity
     ELSE IF C > 0 /\ V > 0 /\ Len(video_sizes.ints) < V
     THEN /\ Raise("IndexError")
          /\ UNCHANGED capacity
     ELSE /\ capacity' = [c \in Range(C) |-> CapacityConstr(video_sizes.ints, V, X)]
          /\ pc' = IF Len(requests) > 0 THEN "requests" ELSE "solve"
          /\ err' = err
  /\ UNCHANGED <<file, pos, parsed, xvars, links, onecache, obj_expr, solution, output>>

BuildRequest ==
  /\ pc = "requests"
  /\ LET req == requests[r_idx + 1] IN
     IF Unpack(req, 3) # "none"
     THEN /\ Raise(Unpack(req, 3))
          /\ UNCHANGED <<r_idx, xvars, links, onecache, obj_expr>>
     ELSE LET v == req.ints[1]
              e_id == req.ints[2]
              n == req.ints[3]
          IN  IF ~InRange(endpoints, e_id)
              THEN /\ Raise("IndexError")
                   /\ UNCHANGED <<r_idx, xvars, links, onecache, obj_expr>>
              ELSE LET e == PyIndex(endpoints, e_id)
                       res == RequestVars(e.caches, 1, r_idx, v, n, e.L_d, yvars, NoVars)
                   IN  /\ xvars' = xvars \cup res.added
                       /\ links' = links \cup res.lk
                       /\ obj_expr' = obj_expr \o res.terms
                       /\ IF res.err # "none"
                          THEN /\ Raise(res.err)
                               /\ UNCHANGED <<r_idx, onecache>>
                          ELSE /\ onecache' = onecache \cup OneCacheConstr(r_idx, res.xs)
                               /\ r_idx' = r_idx + 1
                               /\ pc' = IF r_idx + 1 < Len(requests) THEN "requests" ELSE "solve"
                               /\ err' = err
  /\ UNCHANGED <<file, pos, parsed, yvars, capacity, solution, output>>

(***************************************************************************)
(* The solver: m.optimize() returns with no solution (SolCount = 0), or    *)
(* with any assignment of 0/1 values that satisfies every constraint of    *)
(* the model.  It reports OPTIMAL only within MipGap of the optimum, and   *)
(* TIME_LIMIT otherwise.                                                   *)
(***************************************************************************)
RECURSIVE SumRange(_, _)
\* sum of f[i] for i in range(n)
SumRange(f, n) == IF n <= 0 THEN 0 ELSE SumRange(f, n - 1) + f[n - 1]

RECURSIVE SumSeq(_)
SumSeq(s) == IF s = <<>> THEN 0 ELSE Head(s) + SumSeq(Tail(s))

CapacityHolds(cn, c, ya) ==
  SumRange([v \in DOMAIN cn.coef |-> cn.coef[v] * ya[<<c, v>>]],
           Cardinality(DOMAIN cn.coef)) <= cn.rhs

Feasible(ya, xa) ==
  /\ \A c \in DOMAIN capacity : CapacityHolds(capacity[c], c, ya)
  /\ \A l \in links : xa[l.x] <= ya[l.y]
  /\ \A o \in onecache : SumSeq([i \in 1..Len(o.xs) |-> xa[o.xs[i]]]) <= 1

ObjVal(xa) == SumSeq([i \in 1..Len(obj_expr) |-> obj_expr[i].coef * xa[obj_expr[i].x]])

Solutions ==
  {s \in [y : [yvars -> {0, 1}], x : [xvars -> {0, 1}]] : Feasible(s.y, s.x)}

RECURSIVE MaxOf(_)
MaxOf(S) == LET a == CHOOSE a \in S : TRUE
            IN  IF S = {a} THEN a
                ELSE LET m == MaxOf(S \ {a}) IN IF a > m THEN a ELSE m

\* MipGap = 0.005: |bound - obj| <= 0.005 * |obj|
MipGapNum == 5
MipGapDen == 1000
WithinGap(obj, bound) == (bound - obj) * MipGapDen <= MipGapNum * obj

NoValues == <<>>

\* The objective value of the best solution, 0 when there is none.
BestObj(sols) == IF sols = {} THEN 0 ELSE MaxOf({ObjVal(t.x) : t \in sols})

Optimize ==
  /\ pc = "solve"
  /\ pc' = "solved"
  /\ \E sols \in {Solutions} : \E best \in {BestObj(sols)} :
     \/ /\ SolCount' = 0
        /\ Status' = IF sols = {} THEN "INFEASIBLE" ELSE "TIME_LIMIT"
        /\ yX' = NoValues
        /\ xX' = NoValues
     \/ \E s \in sols :
          /\ SolCount' = 1
          /\ yX' = s.y
          /\ xX' = s.x
          /\ \/ Status' = "TIME_LIMIT"
             \/ /\ WithinGap(ObjVal(s.x), best)
                /\ Status' = "OPTIMAL"
  /\ UNCHANGED <<file, pos, err, parsed, model, output>>

(***************************************************************************)
(* The solution writer.                                                    *)
(***************************************************************************)
\* y[c, v].X > 0.5
IsStored(val) == 2 * val > 1

RECURSIVE FilterRange(_, _)
\* [i for i in range(n) if keep[i]]
FilterRange(keep, n) ==
  IF n <= 0 THEN <<>>
  ELSE IF keep[n - 1] THEN Append(FilterRange(keep, n - 1), n - 1)
  ELSE FilterRange(keep, n - 1)

cache_content(c) == FilterRange([v \in Range(V) |-> IsStored(yX[<<c, v>>])], V)

\* (variant: every cache is listed, used or not)
used_caches_all == FilterRange([c \in Range(C) |-> TRUE], C)

used_caches == FilterRange([c \in Range(C) |-> cache_content(c) # <<>>], C)

\* one line "c v1 v2 ..." per used cache, after the line of their number
OutLine(c) == <<c>> \o cache_content(c)
OutLines == <<<<Len(used_caches)>>>> \o [i \in 1..Len(used_caches) |-> OutLine(used_caches[i])]

\* (variant: the test lets a run without solution through)
HasSolution_ge(n) == n >= 0

\* if m.SolCount > 0
HasSolution(n) == n > 0

\* Reading y[c, v].X when the solver holds no solution raises.
WriteOutput ==
  /\ pc = "solved"
  /\ HasSolution(SolCount)
  /\ IF yvars # {} /\ yX = NoValues
     THEN /\ Raise("GurobiError")
          /\ log' = log \o <<"Solution optimale trouvee">>
          /\ UNCHANGED <<out_opened, out>>
     ELSE /\ out_opened' = TRUE
          /\ out' = OutLines
          /\ log' = log \o <<"Solution optimale trouvee",
                             "Fichier videos.out genere avec succes.">>
          /\ pc' = "done"
          /\ err' = err
  /\ UNCHANGED <<file, pos, parsed, model, solution>>

NoSolution ==
  /\ pc = "solved"
  /\ ~HasSolution(SolCount)
  /\ log' = log \o <<"Aucune solution trouvee.">>
  /\ pc' = "done"
  /\ UNCHANGED <<file, pos, err, parsed, model, solution, out_opened, out>>

(***************************************************************************)
(* Inputs.                                                                 *)
(***************************************************************************)
SeqsUpTo(S, n) == UNION {[1..k -> S] : k \in 0..n}

RECURSIVE DictOf(_, _)
\* caches = {}; for each of the first k lines: caches[c_id] = c_lat
DictOf(conn, k) == IF k = 0 THEN <<>>
                   ELSE DictSet(DictOf(conn, k - 1), conn[k][1], conn[k][2])

EmptyModel ==
  /\ yvars = {} /\ capacity = <<>> /\ r_idx = 0 /\ xvars = {} /\ links = {}
  /\ onecache = {} /\ obj_expr = <<>>
  /\ SolCount = 0 /\ Status = "LOADED" /\ yX = NoValues /\ xX = NoValues
  /\ out_opened = FALSE /\ out = <<>> /\ log = <<>>

\* The state when parsing has succeeded on a well-formed instance with one
\* endpoint: the model builder starts.
Init ==
  /\ file = <<>> /\ pos = 1 /\ pc = "build" /\ err = "none"
  /\ ep = NoEp
  /\ \E nV \in VVals, nC \in CVals, cap \in XVals :
       /\ \E sizes \in [1..nV -> SizeVals] : video_sizes = Some(sizes)
       /\ \E L_d \in LdVals, conn \in SeqsUpTo(Range(nC) \X LatVals, MaxK) :
            endpoints = <<[L_d |-> L_d, caches |-> DictOf(conn, Len(conn))]>>
       /\ \E reqs \in SeqsUpTo(Range(nV) \X {0} \X NVals, MaxR) :
            /\ requests = [i \in 1..Len(reqs) |-> Some(reqs[i])]
            /\ header = <<nV, 1, Len(reqs), nC, cap>>
  /\ EmptyModel

Next ==
  \/ BuildModel
  \/ BuildRequest
  \/ Optimize
  \/ WriteOutput
  \/ NoSolution

Spec == Init /\ [][Next]_vars

(***************************************************************************)
(* Input files: the well-formed files of a family of instances, with blank *)
(* lines inserted, cut short, or with one token replaced or added.         *)
(***************************************************************************)
Line(toks) == [ws |-> 0, toks |-> toks]

\* the k-th blank line of a run: "\n", or whitespace and "\n"
BlankLine(k) == [ws |-> k % 2, toks |-> <<>>]

\* The values written in the files of the family; bad is an id no instance has.
FileVals == [L_d |-> 3, lat |-> 1, n |-> 1, X |-> 1, size |-> 1, bad |-> 3]

Lines(ss) == [i \in 1..Len(ss) |-> Line(ss[i])]

\* V E R C X / sizes / L_d K / K lines "c lat" / R lines "v e n"
Serialise(hdr, sizes, L_d, conn, reqs) ==
  Lines(<<hdr, sizes, <<L_d, Len(conn)>>>> \o conn \o reqs)

GoodFiles ==
  UNION {{Serialise(<<nV, 1, nR, nC, FileVals.X>>, [i \in 1..nV |-> FileVals.size],
                    FileVals.L_d, conn, [i \in 1..nR |-> <<nV - 1, 0, FileVals.n>>]) :
            nV \in VVals, nR \in 0..MaxR,
            conn \in SeqsUpTo(Range(nC) \X {FileVals.lat}, MaxK)} : nC \in CVals}

InsertBlanks(f, p, k) ==
  SubSeq(f, 1, p) \o [i \in 1..k |-> BlankLine(i)] \o SubSeq(f, p + 1, Len(f))

SetTok(f, i, j, val) ==
  IF j <= Len(f[i].toks) THEN [f EXCEPT ![i].toks[j] = val] ELSE f

AddTok(f, i, val) == [f EXCEPT ![i].toks = Append(f[i].toks, val)]

Variants(f) ==
  {f}
  \cup {InsertBlanks(f, p, k) : p \in 0..Len(f), k \in 1..MaxBlank}
  \cup {SubSeq(f, 1, i - 1) : i \in 1..Len(f)}
  \cup {SetTok(f, i, j, FileVals.bad) : i \in 1..Len(f), j \in 1..2}
  \cup {AddTok(f, i, FileVals.size) : i \in 1..Len(f)}

Files == UNION {Variants(f) : f \in GoodFiles}

InitFile ==
  /\ file \in Files
  /\ pos = 1 /\ pc = "header" /\ err = "none"
  /\ header = <<>> /\ video_sizes = None /\ endpoints = <<>> /\ ep = NoEp
  /\ requests = <<>>
  /\ EmptyModel

NextFile ==
  \/ ReadHeader
  \/ ReadVideoSizes
  \/ ReadEndpointHeader
  \/ ReadCacheLine
  \/ ReadRequest
  \/ BuildModel
  \/ BuildRequest
  \/ Optimize
  \/ WriteOutput
  \/ NoSolution

SpecFile == InitFile /\ [][NextFile]_vars

(***************************************************************************)
(* Properties.                                                             *)
(***************************************************************************)
Solved == pc \in {"solved", "done"} /\ SolCount > 0

\* the request of 0-based index r, as (v, e, n)
ReqOf(r) == requests[r + 1].ints

\* the videos listed on a line "c v1 v2 ..." of the output
VideosOf(line) == Tail(line)

SizeSum(vs) == SumSeq([j \in 1..Len(vs) |-> video_sizes.ints[vs[j] + 1]])

\* C1 (capacity invariant): on every cache line written to videos.out, the
\* sizes of the listed videos sum to at most the capacity X.
C1_CapacityInvariant ==
  (pc = "done" /\ out_opened) =>
    \A i \in 2..Len(out) : SizeSum(VideosOf(out[i])) <= X

\* A written cache line lists two videos that fill the cache exactly.
C1_Witness ==
  /\ pc = "done" /\ out_opened
  /\ \E i \in 2..Len(out) :
       Len(VideosOf(out[i])) = 2 /\ SizeSum(VideosOf(out[i])) = X

\* C2 (linking invariant): in every returned solution, a request credited to
\* a cache (x[r,c] = 1) has its video stored in that cache (y[c,v] = 1).
C2_LinkingInvariant ==
  Solved => \A xv \in xvars :
              xX[xv] = 1 => yX[<<xv[2], ReqOf(xv[1])[1]>>] = 1

\* A solution credits a request of the second video to a cache, and leaves
\* another candidate uncredited whose cache does not store the video.
C2_Witness ==
  /\ Solved
  /\ \E xv \in xvars : xX[xv] = 1 /\ ReqOf(xv[1])[1] = 1
  /\ \E xv \in xvars : xX[xv] = 0 /\ yX[<<xv[2], ReqOf(xv[1])[1]>>] = 0

\* the candidate caches of request r: connected to its endpoint with a
\* latency strictly below the data-center latency
Candidates(r) ==
  LET e == PyIndex(endpoints, ReqOf(r)[2])
  IN  {e.caches[j][1] : j \in {k \in 1..Len(e.caches) : e.caches[k][2] < e.L_d}}

\* the requests the builder has gone through; the model is complete at
\* "solve" and no later step changes it
Built == IF pc \in {"requests", "solve"} THEN Range(r_idx) ELSE {}

\* C4 (candidate filter): x[r,c] exists exactly for the caches c connected to
\* r's endpoint with latency < data-center latency; a request without such a
\* cache has no x variable, no objective term, no Link and no OneCache
\* constraint.
C4_CandidateFilter ==
  \A r \in Built :
    /\ {xv \in xvars : xv[1] = r} = {<<r, c>> : c \in Candidates(r)}
    /\ Candidates(r) = {} =>
         /\ \A i \in 1..Len(obj_expr) : obj_expr[i].x[1] # r
         /\ \A l \in links : l.x[1] # r
         /\ \A o \in onecache : o.r # r
    /\ Candidates(r) # {} =>
         /\ \A c \in Candidates(r) :
              /\ \E i \in 1..Len(obj_expr) : obj_expr[i].x = <<r, c>>
              /\ \E l \in links : l.x = <<r, c>>
         /\ \E o \in onecache : o.r = r

\* Two requests are built at an endpoint whose two caches are as slow as the
\* data center: nothing was added to the model for them.
C4_Witness ==
  /\ pc = "solve" /\ r_idx = 2
  /\ Len(endpoints[1].caches) = 2
  /\ \A j \in 1..2 : endpoints[1].caches[j][2] = endpoints[1].L_d
  /\ xvars = {} /\ obj_expr = <<>> /\ links = {} /\ onecache = {}

\* the caches and videos of the solution read with the threshold 0.5
StoredIn(c) == {v \in Range(V) : 2 * yX[<<c, v>>] > 1}
NonEmpty == {c \in Range(C) : StoredIn(c) # {}}

StrictlyIncreasing(q) == \A i \in 1..(Len(q) - 1) : q[i] < q[i + 1]

\* C5 (output format): the first line is the number of caches holding a
\* video; then one line per such cache, in increasing cache id, made of the
\* cache id and exactly its videos in increasing id; no line for an empty
\* cache.
C5_OutputFormat ==
  (pc = "done" /\ SolCount > 0) =>
    /\ out_opened
    /\ Len(out) = 1 + Cardinality(NonEmpty)
    /\ out[1] = <<Cardinality(NonEmpty)>>
    /\ StrictlyIncreasing([i \in 1..(Len(out) - 1) |-> out[i + 1][1]])
    /\ \A i \in 2..Len(out) :
         /\ out[i][1] \in NonEmpty
         /\ StrictlyIncreasing(VideosOf(out[i]))
         /\ {VideosOf(out[i])[j] : j \in 1..Len(VideosOf(out[i]))} = StoredIn(out[i][1])

\* Cache 0 is empty and has no line; cache 1 is listed with two videos.
C5_Witness ==
  /\ pc = "done" /\ SolCount > 0
  /\ out = << <<1>>, <<1, 0, 1>> >>

\* C7 (no-solution path): without a solution the run prints that none was
\* found and ends normally without opening videos.out; the file is only
\* written after the solver returned a solution.
C7_NoSolutionPath ==
  /\ out_opened => (pc = "done" /\ SolCount > 0)
  /\ (Status # "LOADED" /\ SolCount = 0) =>
       /\ pc \in {"solved", "done"}
       /\ ~out_opened /\ out = <<>> /\ err = "none"
  /\ (pc = "done" /\ SolCount = 0) => log = <<"Aucune solution trouvee.">>

\* The solver gave up on a feasible model and the run ended without output.
C7_Witness ==
  /\ pc = "done" /\ SolCount = 0 /\ Status = "TIME_LIMIT"
  /\ log = <<"Aucune solution trouvee.">> /\ ~out_opened

\* C8 (time-limit cutoff): a solution the solver did not prove optimal is
\* written, and what the run records tells it apart from an optimal one: it
\* does not report it as optimal.
C8_CutoffDistinguishable ==
  (pc = "done" /\ out_opened /\ Status = "TIME_LIMIT") =>
    \A i \in 1..Len(log) : log[i] # "Solution optimale trouvee"

\* the latency of cache c at the endpoint e (c is connected to e)
LatencyOf(e, c) == LET j == CHOOSE k \in 1..Len(e.caches) : e.caches[k][1] = c
                   IN  e.caches[j][2]

\* the largest saving of request r among its candidates storing its video
BestSaving(r, ya) ==
  LET e == PyIndex(endpoints, ReqOf(r)[2])
      S == {(e.L_d - LatencyOf(e, c)) * ReqOf(r)[3] :
              c \in {d \in Candidates(r) : ya[<<d, ReqOf(r)[1]>>] = 1}}
  IN  IF S = {} THEN 0 ELSE MaxOf(S)

BestTotal(ya) == SumSeq([i \in 1..Len(requests) |-> BestSaving(i - 1, ya)])

\* what request r adds to the objective under the assignment xa
Contribution(r, xa) ==
  SumSeq([i \in 1..Len(obj_expr) |->
            IF obj_expr[i].x[1] = r THEN obj_expr[i].coef * xa[obj_expr[i].x] ELSE 0])

\* C10 (objective picks the best cache): x[r,c] has coefficient
\* (L_d - L_c) * n; for every y within capacity the largest objective over x
\* is the sum over the requests of the best saving among the candidate
\* caches storing the video; a solution reaching it credits every request
\* with that best saving.
C10_ObjectivePicksBest ==
  /\ pc = "solve" =>
       /\ \A i \in 1..Len(obj_expr) :
            LET r == obj_expr[i].x[1]
                e == PyIndex(endpoints, ReqOf(r)[2])
            IN  obj_expr[i].coef =
                  (e.L_d - LatencyOf(e, obj_expr[i].x[2])) * ReqOf(r)[3]
       /\ \A ya \in [yvars -> {0, 1}] :
            (\A c \in DOMAIN capacity : CapacityHolds(capacity[c], c, ya)) =>
              MaxOf({ObjVal(xa) : xa \in {xb \in [xvars -> {0, 1}] : Feasible(ya, xb)}})
                = BestTotal(ya)
  /\ (pc = "solved" /\ SolCount > 0 /\ ObjVal(xX) = BestTotal(yX)) =>
       \A r \in Range(Len(requests)) : Contribution(r, xX) = BestSaving(r, yX)

\* A solution credits a request to the better of its two stored candidates,
\* of different savings, and another request counted twice to the only one.
C10_Witness ==
  /\ Solved /\ Len(requests) = 2 /\ Cardinality(xvars) = 4
  /\ ObjVal(xX) = BestTotal(yX)
  /\ ReqOf(0)[3] = 2
  /\ \A c \in Range(C) : yX[<<c, ReqOf(0)[1]>>] = 1
  /\ LatencyOf(endpoints[1], 0) # LatencyOf(endpoints[1], 1)
  /\ Contribution(0, xX) = 4

(***************************************************************************)
(* The input format, as a reference for the parser: the lines that are not *)
(* blank are V E R C X, then V sizes, then E endpoints (L_d K and K lines  *)
(* "c lat" with c < C), then exactly R lines "v e n" with v < V and e < E. *)
(***************************************************************************)
RECURSIVE NonBlank(_)
NonBlank(f) ==
  IF f = <<>> THEN <<>>
  ELSE IF Head(f).toks = <<>> THEN NonBlank(Tail(f))
  ELSE <<Head(f).toks>> \o NonBlank(Tail(f))

RECURSIVE EndOfEndpoints(_, _, _, _)
\* the line after e endpoints that start at line p; 0 if the lines do not fit
EndOfEndpoints(L, p, e, nC) ==
  IF e = 0 THEN p
  ELSE IF p > Len(L) THEN 0
  ELSE IF Len(L[p]) # 2 THEN 0
  ELSE LET K == L[p][2] IN
       IF K < 0 \/ p + K > Len(L) THEN 0
       ELSE IF \E i \in (p + 1)..(p + K) : Len(L[i]) # 2 \/ L[i][1] \notin Range(nC)
       THEN 0
       ELSE EndOfEndpoints(L, p + K + 1, e - 1, nC)

Conforms(L) ==
  /\ Len(L) >= 2
  /\ Len(L[1]) = 5
  /\ \A j \in 1..5 : L[1][j] >= 0
  /\ Len(L[2]) = L[1][1]
  /\ LET q == EndOfEndpoints(L, 3, L[1][2], L[1][4]) IN
       /\ q # 0
       /\ Len(L) = q - 1 + L[1][3]
       /\ \A i \in q..Len(L) :
            /\ Len(L[i]) = 3
            /\ L[i][1] \in Range(L[1][1])
            /\ L[i][2] \in Range(L[1][2])
            /\ L[i][3] >= 0

RECURSIVE DecodeEndpoints(_, _, _)
DecodeEndpoints(L, p, e) ==
  IF e = 0 THEN <<>>
  ELSE LET K == L[p][2] IN
       <<[L_d |-> L[p][1], caches |-> DictOf(SubSeq(L, p + 1, p + K), K)]>>
         \o DecodeEndpoints(L, p + K + 1, e - 1)

DecodeRequests(L) ==
  [i \in 1..L[1][3] |-> Some(L[Len(L) - L[1][3] + i])]

PostParse == {"build", "requests", "solve", "solved", "done"}

\* C6 (parser validation): an input with a missing group, a count that does
\* not match the items that follow or an id out of range is rejected by the
\* parser, so that no model is built and videos.out is never written for it.
C6_MalformedRejected ==
  ~Conforms(NonBlank(file)) => ~out_opened

\* C9 (blank lines): a well-formed input with blank lines (empty or
\* whitespace-only) between its records parses without error to the header,
\* sizes, endpoints and requests of its lines that are not blank.
C9_BlankLinesSkipped ==
  LET L == NonBlank(file) IN
  Conforms(L) =>
    /\ pc # "error"
    /\ pc \in PostParse =>
         /\ header = L[1]
         /\ video_sizes = Some(L[2])
         /\ endpoints = DecodeEndpoints(L, 3, L[1][2])
         /\ requests = DecodeRequests(L)

\* A file with an empty and a whitespace-only line between its two cache
\* lines has been parsed, with an endpoint of two caches and a request.
C9_Witness ==
  /\ pc = "build"
  /\ Conforms(NonBlank(file))
  /\ Len(file) = Len(NonBlank(file)) + 2
  /\ Len(file) >= 7
  /\ file[5].toks = <<>> /\ file[6].toks = <<>> /\ file[5].ws # file[6].ws
  /\ Len(endpoints) = 1 /\ Len(endpoints[1].caches) = 2
  /\ Len(requests) >= 1

\* C3 (mutual exclusion): in every returned solution at most one x[r,c] of a
\* request is 1, also when the endpoint's lines name a cache id twice.
C3_MutualExclusion ==
  Solved => \A r \in Range(Len(requests)) :
              Cardinality({xv \in xvars : xv[1] = r /\ xX[xv] = 1}) <= 1

\* The endpoint of the file names the same cache id on two lines, and the
\* solution credits the request to that cache.
C3_Witness ==
  /\ Solved
  /\ Len(file) = 6 /\ Len(NonBlank(file)) = 6 /\ Conforms(NonBlank(file))
  /\ file[3].toks[2] = 2
  /\ file[4].toks[1] = file[5].toks[1]
  /\ Len(endpoints[1].caches) = 1
  /\ Cardinality(xvars) = 1
  /\ \E xv \in xvars : xX[xv] = 1

====
